---------------------------- MODULE Spec2Model ----------------------------
(***************************************************************************)
(* joshnice/waf-challenge: the web ACL of src/aws/lib/waf-challenge.ts     *)
(* (two rules, default action allow) in front of the API gateway stage     *)
(* and the Lambda handler of src/api/index.js, and the results list of     *)
(* the demo client src/client/src/App.tsx.                                 *)
(*                                                                         *)
(* Strings whose bytes matter (the URI path, the HTTP method, the search   *)
(* strings of the byte match statements) are sequences of one-character    *)
(* strings, so that LOWERCASE, EXACTLY and CONTAINS are computed.          *)
(***************************************************************************)
EXTENDS Integers, Sequences, FiniteSets, TLC

\* ------------------------------------------------------------- bounds
\* Longest URI path the model draws.
MaxPathLen == 3
\* Most button clicks of one client session.
MaxClicks == 3
\* Largest rule priority a candidate policy is given.
MaxPriority == 2
\* Most rules of a candidate policy.
MaxRules == 3

\* ------------------------------------------------------------- text
UpperAlpha ==
  << "A", "B", "C", "D", "E", "F", "G", "H", "I", "J", "K", "L", "M",
     "N", "O", "P", "Q", "R", "S", "T", "U", "V", "W", "X", "Y", "Z" >>

LowerAlpha ==
  << "a", "b", "c", "d", "e", "f", "g", "h", "i", "j", "k", "l", "m",
     "n", "o", "p", "q", "r", "s", "t", "u", "v", "w", "x", "y", "z" >>

ToLower ==
  [ c \in { UpperAlpha[i] : i \in DOMAIN UpperAlpha } |->
      LowerAlpha[CHOOSE i \in DOMAIN UpperAlpha : UpperAlpha[i] = c] ]

ToUpper ==
  [ c \in { LowerAlpha[i] : i \in DOMAIN LowerAlpha } |->
      UpperAlpha[CHOOSE i \in DOMAIN LowerAlpha : LowerAlpha[i] = c] ]

\* The LOWERCASE text transformation on one character.
Lower(c) == IF c \in DOMAIN ToLower THEN ToLower[c] ELSE c

\* A text transformation of a byte match statement applied to a field value.
Transform(type, s) ==
  IF type = "LOWERCASE" THEN [i \in DOMAIN s |-> Lower(s[i])] ELSE s

\* positionalConstraint CONTAINS: the search string occurs somewhere in s.
Contains(s, search) ==
  \E k \in 0..(Len(s) - Len(search)) :
    \A i \in 1..Len(search) : s[k + i] = search[i]

\* positionalConstraint EXACTLY: s equals the search string byte for byte.
Exactly(s, search) ==
  /\ Len(s) = Len(search)
  /\ \A i \in 1..Len(search) : s[i] = search[i]

\* ------------------------------------------------------------- requests
GET == << "G", "E", "T" >>
OPTIONS == << "O", "P", "T", "I", "O", "N", "S" >>
options == << "o", "p", "t", "i", "o", "n", "s" >>

Methods == { GET, OPTIONS, options }

PathChars == { "/", "d", "e", "v", "E" }

RECURSIVE SeqsUpTo(_, _)
SeqsUpTo(S, n) ==
  IF n = 0 THEN { << >> }
  ELSE LET shorter == SeqsUpTo(S, n - 1)
       IN  shorter \cup { Append(s, c) : s \in { t \in shorter : Len(t) = n - 1 }, c \in S }

Paths == SeqsUpTo(PathChars, MaxPathLen)

TokenAbsent == "awswaf:managed:token:absent"
TokenRejected == "awswaf:managed:token:rejected"
TokenLabels == { TokenAbsent, TokenRejected }

\* ------------------------------------------------------------- the web ACL
\* And is not an OPTIONS request.
MethodIsOptions ==
  [ kind |-> "byteMatchStatement", fieldToMatch |-> "method",
    positionalConstraint |-> "EXACTLY", searchString |-> OPTIONS,
    textTransformation |-> "NONE" ]

NotOptions == [ kind |-> "notStatement", statement |-> MethodIsOptions ]

\* The path test with no text transformation.
PathContainsDevNoTransform ==
  [ kind |-> "byteMatchStatement", fieldToMatch |-> "uriPath",
    positionalConstraint |-> "CONTAINS", searchString |-> << "d", "e", "v" >>,
    textTransformation |-> "NONE" ]

\* If the url path contains "dev".
PathContainsDev ==
  [ kind |-> "byteMatchStatement", fieldToMatch |-> "uriPath",
    positionalConstraint |-> "CONTAINS", searchString |-> << "d", "e", "v" >>,
    textTransformation |-> "LOWERCASE" ]

\* The scope without its OPTIONS exclusion.
scopeDownStatementPathOnly ==
  [ kind |-> "andStatement", statements |-> << PathContainsDev >> ]

\* The scope without its path test.
scopeDownStatementMethodOnly ==
  [ kind |-> "andStatement", statements |-> << NotOptions >> ]

\* What requests the managed rule group checks.
scopeDownStatement ==
  [ kind |-> "andStatement", statements |-> << PathContainsDev, NotOptions >> ]

\* The overrides without CategoryHttpLibrary.
ruleActionOverridesTwo ==
  << [ name |-> "TGT_VolumetricIpTokenAbsent", actionToUse |-> "CHALLENGE" ],
     [ name |-> "SignalNonBrowserUserAgent", actionToUse |-> "CHALLENGE" ] >>

\* Recommended overrides: rule of the managed group -> action to use.
ruleActionOverrides ==
  << [ name |-> "TGT_VolumetricIpTokenAbsent", actionToUse |-> "CHALLENGE" ],
     [ name |-> "SignalNonBrowserUserAgent", actionToUse |-> "CHALLENGE" ],
     [ name |-> "CategoryHttpLibrary", actionToUse |-> "CHALLENGE" ] >>

OverrideSignals == { "TGT_VolumetricIpTokenAbsent", "SignalNonBrowserUserAgent",
                     "CategoryHttpLibrary" }

Signals == TokenLabels \cup OverrideSignals

Requests ==
  [ method : Methods, uriPath : Paths, signals : SUBSET Signals ]

BotControlRuleName == "AWSManagedRulesBotControlRuleSet"
BlockRuleName == "Block-Requests-With-Missing-Or-Rejected-Token-Label"

BotControlRule ==
  [ name |-> BotControlRuleName,
    priority |-> 1,
    kind |-> "managedRuleGroup",
    statement |-> scopeDownStatement,
    overrides |-> ruleActionOverrides,
    action |-> "CONTINUE" ]

\* The label test without token:rejected.
TokenLabelStatementAbsentOnly ==
  [ kind |-> "orStatement",
    statements |-> << [ kind |-> "labelMatchStatement", key |-> TokenAbsent ] >> ]

\* The request has a missing or rejected token.
TokenLabelStatement ==
  [ kind |-> "orStatement",
    statements |->
      << [ kind |-> "labelMatchStatement", key |-> TokenAbsent ],
         [ kind |-> "labelMatchStatement", key |-> TokenRejected ] >> ]

BlockRuleStatement ==
  [ kind |-> "andStatement", statements |-> << TokenLabelStatement, NotOptions >> ]

\* The block rule given the bot-control rule's priority.
BlockRuleSamePriority ==
  [ name |-> BlockRuleName,
    priority |-> 1,
    kind |-> "rule",
    statement |-> BlockRuleStatement,
    overrides |-> << >>,
    action |-> "BLOCK" ]

\* If the request has a missing or rejected token after a challenge, block it.
BlockRule ==
  [ name |-> BlockRuleName,
    priority |-> 2,
    kind |-> "rule",
    statement |-> BlockRuleStatement,
    overrides |-> << >>,
    action |-> "BLOCK" ]

wafRules == << BotControlRule, BlockRule >>

defaultAction == "ALLOW"

\* ------------------------------------------------------------- evaluation
FieldOf(req, fieldToMatch) ==
  IF fieldToMatch = "uriPath" THEN req.uriPath ELSE req.method

ByteMatch(stmt, req) ==
  LET value == Transform(stmt.textTransformation, FieldOf(req, stmt.fieldToMatch))
  IN  IF stmt.positionalConstraint = "CONTAINS"
        THEN Contains(value, stmt.searchString)
        ELSE Exactly(value, stmt.searchString)

RECURSIVE Eval(_, _)
Eval(stmt, req) ==
  CASE stmt.kind = "andStatement" ->
         \A i \in DOMAIN stmt.statements : Eval(stmt.statements[i], req)
    [] stmt.kind = "orStatement" ->
         \E i \in DOMAIN stmt.statements : Eval(stmt.statements[i], req)
    [] stmt.kind = "notStatement" -> ~ Eval(stmt.statement, req)
    [] stmt.kind = "byteMatchStatement" -> ByteMatch(stmt, req)
    [] stmt.kind = "labelMatchStatement" -> stmt.key \in req.signals

\* The action a managed rule group yields on a request inside its scope: the
\* action of the first override whose rule the request's signals name.
OverrideAction(overrides, req) ==
  LET hits == { i \in DOMAIN overrides : overrides[i].name \in req.signals }
  IN  IF hits = { } THEN "CONTINUE"
      ELSE overrides[CHOOSE i \in hits : \A j \in hits : i <= j].actionToUse

\* The action one rule takes on a request; CONTINUE when it does not end the
\* evaluation.
RuleAction(rule, req) ==
  IF ~ Eval(rule.statement, req) THEN "CONTINUE"
  ELSE IF rule.kind = "managedRuleGroup" THEN OverrideAction(rule.overrides, req)
  ELSE rule.action


NoRule == "none"

Disposition(outcome, matchedRule, req) ==
  [ outcome |-> outcome, matchedRule |-> matchedRule, labels |-> req.signals ]

\* The rule evaluated next were the highest priority number to go first.
NextRuleDescending(left, rules) ==
  CHOOSE i \in left :
    \A j \in left :
      \/ rules[i].priority > rules[j].priority
      \/ rules[i].priority = rules[j].priority /\ i >= j

\* Among the rules not yet evaluated, the one evaluated next: the lowest
\* priority number (declaration order among equals).
NextRule(left, rules) ==
  CHOOSE i \in left :
    \A j \in left :
      \/ rules[i].priority < rules[j].priority
      \/ rules[i].priority = rules[j].priority /\ i <= j

RECURSIVE EvaluateRules(_, _, _, _)
EvaluateRules(left, rules, default, req) ==
  IF left = { } THEN Disposition(default, NoRule, req)
  ELSE LET i == NextRule(left, rules)
           action == RuleAction(rules[i], req)
       IN  IF action # "CONTINUE"
             THEN Disposition(action, rules[i].name, req)
             ELSE EvaluateRules(left \ { i }, rules, default, req)

\* The web ACL were it to have no default action.
ClassifyNoDefault(req) ==
  EvaluateRules(DOMAIN wafRules, wafRules, "NONE", req)

\* The web ACL: rules wafRules, defaultAction allow.
Classify(req) ==
  EvaluateRules(DOMAIN wafRules, wafRules, defaultAction, req)

\* ------------------------------------------------------------- the API
\* deployOptions.stageName of the LambdaRestApi.
StageName == "dev"

\* No stage is associated with the web ACL.
AssociatedStageMissing == "none"

\* The stage named by the resourceArn of the CfnWebACLAssociation.
AssociatedStage == StageName

\* exports.handler of the Lambda function.
handler(event) ==
  [ statusCode |-> 200, body |-> "{\"hello\":\"from waf-challenge\"}" ]

\* ------------------------------------------------------------- state
VARIABLES
  stage,      \* where the request at the API gateway stage is
  req,        \* that request
  disp,       \* the web ACL's disposition of it
  prevDisp,   \* the disposition the same request got when it was sent before
  response,   \* what the client is answered
  challenged, \* whether the client was sent a challenge during this exchange
  results,    \* App: the results state of the latest render
  inflight,   \* App: the handler calls awaiting their fetch
  clicks,     \* App: the types of the buttons clicked so far
  policy,     \* Policy Store: the rule list handed to load
  loadResult  \* Policy Store: what load answered

gatewayVars == << stage, req, disp, prevDisp, response, challenged >>
clientVars == << results, inflight, clicks >>
loadVars == << policy, loadResult >>
vars == << gatewayVars, clientVars, loadVars >>

NoRequest == [ method |-> << >>, uriPath |-> << >>, signals |-> { } ]
NoDisposition == [ outcome |-> "NONE", matchedRule |-> NoRule, labels |-> { } ]
NoResponse == [ statusCode |-> 0, body |-> "" ]

StageOf(outcome) ==
  CASE outcome = "ALLOW" -> "ALLOWED"
    [] outcome = "BLOCK" -> "BLOCKED"
    [] outcome = "CHALLENGE" -> "CHALLENGED"
    [] OTHER -> "ERROR"

GatewayInit ==
  /\ stage = "IDLE"
  /\ req = NoRequest
  /\ disp = NoDisposition
  /\ prevDisp = NoDisposition
  /\ response = NoResponse
  /\ challenged = FALSE

\* A request arrives at the stage.
Receive ==
  /\ stage = "IDLE"
  /\ stage' = "RECEIVED"
  /\ \E r \in Requests : req' = r
  /\ disp' = NoDisposition
  /\ prevDisp' = NoDisposition
  /\ response' = NoResponse
  /\ challenged' = FALSE
  /\ UNCHANGED << clientVars, loadVars >>

\* The web ACL associated with the stage classifies the request; a stage with
\* no web ACL passes every request on.
Evaluate ==
  /\ stage = "RECEIVED"
  /\ disp' = IF AssociatedStage = StageName
               THEN Classify(req)
               ELSE Disposition("ALLOW", NoRule, req)
  /\ stage' = StageOf(disp'.outcome)
  /\ UNCHANGED << req, prevDisp, response, challenged, clientVars, loadVars >>

\* An allowed request is forwarded: the CORS preflight is answered by the
\* gateway, everything else by the Lambda function (proxy: true).
Invoke ==
  /\ stage = "ALLOWED"
  /\ IF req.method = OPTIONS
       THEN /\ stage' = "PREFLIGHT"
            /\ response' = [ statusCode |-> 204, body |-> "" ]
       ELSE /\ stage' = "HANDLED"
            /\ response' = handler(req)
  /\ UNCHANGED << req, disp, prevDisp, challenged, clientVars, loadVars >>

\* A blocked request is answered 403 by the web ACL.
Block ==
  /\ stage = "BLOCKED"
  /\ stage' = "REJECTED"
  /\ response' = [ statusCode |-> 403, body |-> "Forbidden" ]
  /\ UNCHANGED << req, disp, prevDisp, challenged, clientVars, loadVars >>

\* A challenged request is answered with the challenge (202).
Challenge ==
  /\ stage = "CHALLENGED"
  /\ stage' = "CHALLENGE_SENT"
  /\ response' = [ statusCode |-> 202, body |-> "challenge" ]
  /\ challenged' = TRUE
  /\ UNCHANGED << req, disp, prevDisp, clientVars, loadVars >>

\* The client runs the challenge and sends the request again; upstream
\* inspection attaches the signals afresh (the token may still be missing or
\* rejected after a challenge).
ResolveChallenge ==
  /\ stage = "CHALLENGE_SENT"
  /\ stage' = "RECEIVED"
  /\ \E signals \in SUBSET Signals : req' = [ req EXCEPT !.signals = signals ]
  /\ disp' = NoDisposition
  /\ prevDisp' = NoDisposition
  /\ response' = NoResponse
  /\ UNCHANGED << challenged, clientVars, loadVars >>

\* The client sends the very same request once more.
Retry ==
  /\ stage \in { "HANDLED", "PREFLIGHT", "REJECTED", "CHALLENGE_SENT" }
  /\ prevDisp = NoDisposition
  /\ stage' = "RECEIVED"
  /\ prevDisp' = disp
  /\ disp' = NoDisposition
  /\ response' = NoResponse
  /\ UNCHANGED << req, challenged, clientVars, loadVars >>

\* The exchange is over.
Finish ==
  /\ stage \in { "HANDLED", "PREFLIGHT", "REJECTED", "CHALLENGE_SENT" }
  /\ stage' = "IDLE"
  /\ req' = NoRequest
  /\ disp' = NoDisposition
  /\ prevDisp' = NoDisposition
  /\ response' = NoResponse
  /\ challenged' = FALSE
  /\ UNCHANGED << clientVars, loadVars >>

\* ------------------------------------------------------------- the client
\* useState([]) of App: nothing displayed, nothing clicked.
ClientIdle ==
  /\ results = << >>
  /\ inflight = { }
  /\ clicks = << >>

\* JSON.stringify of the body the API answers.
HelloBody == "{\"hello\":\"from waf-challenge\"}"

\* A click runs the handler of the latest render up to its first await: the
\* fetch is under way and the handler holds the results of that render.
handleButtonWithChallenge ==
  /\ Len(clicks) < MaxClicks
  /\ clicks' = Append(clicks, [ type |-> "Challenge", status |-> "pending" ])
  /\ inflight' = inflight \cup
       { [ id |-> Len(clicks) + 1, type |-> "Challenge", results |-> results ] }
  /\ UNCHANGED << results, gatewayVars, loadVars >>

handleButtonNoChallenge ==
  /\ Len(clicks) < MaxClicks
  /\ clicks' = Append(clicks, [ type |-> "Non challenge", status |-> "pending" ])
  /\ inflight' = inflight \cup
       { [ id |-> Len(clicks) + 1, type |-> "Non challenge", results |-> results ] }
  /\ UNCHANGED << results, gatewayVars, loadVars >>

\* What setResult([...results, entry]) of the handler call c stores.
SetResult(c, entry) == Append(c.results, entry)

\* The fetch of a handler call resolves and its body parses: the handler
\* stores its entry with the response's status.
ResumeWithResponse ==
  \E c \in inflight :
    /\ results' = SetResult(c, [ type |-> c.type, code |-> 200, message |-> HelloBody ])
    /\ inflight' = inflight \ { c }
    /\ clicks' = [ clicks EXCEPT ![c.id].status = "response" ]
    /\ UNCHANGED << gatewayVars, loadVars >>

\* The fetch or the parse throws an Error: the entry has code 500.
ResumeWithError ==
  \E c \in inflight :
    /\ results' = SetResult(c, [ type |-> c.type, code |-> 500, message |-> "Failed to fetch" ])
    /\ inflight' = inflight \ { c }
    /\ clicks' = [ clicks EXCEPT ![c.id].status = "error" ]
    /\ UNCHANGED << gatewayVars, loadVars >>

\* What is thrown is not an Error: the catch block stores nothing.
ResumeWithNonError ==
  \E c \in inflight :
    /\ inflight' = inflight \ { c }
    /\ clicks' = [ clicks EXCEPT ![c.id].status = "thrown" ]
    /\ UNCHANGED << results, gatewayVars, loadVars >>

NextClient ==
  \/ handleButtonWithChallenge
  \/ handleButtonNoChallenge
  \/ ResumeWithResponse
  \/ ResumeWithError
  \/ ResumeWithNonError

\* ------------------------------------------------------------- the policy store
LoadIdle ==
  /\ policy = << >>
  /\ loadResult = "NONE"

\* A rule that matches the CORS preflight only.
OptionsRule ==
  [ name |-> "Allow-Options",
    priority |-> 1,
    kind |-> "rule",
    statement |-> MethodIsOptions,
    overrides |-> << >>,
    action |-> "ALLOW" ]

\* The rules candidate policies are made of.
RulePool == << BotControlRule, BlockRule, OptionsRule >>

\* Requests that tell the predicates of the pool apart.
ProbeRequests ==
  [ method : { GET, OPTIONS }, uriPath : { << >>, << "d", "e", "v" >> },
    signals : SUBSET { TokenAbsent, TokenRejected } ]

\* load(source): ConfigError when two rules have equal priority and predicates
\* that are both true of some request.
load(rules) ==
  IF \E i \in DOMAIN rules : \E j \in DOMAIN rules :
       /\ i < j
       /\ rules[i].priority = rules[j].priority
       /\ \E r \in ProbeRequests :
            Eval(rules[i].statement, r) /\ Eval(rules[j].statement, r)
    THEN "ConfigError"
    ELSE "LOADED"

\* The policy store is handed a rule list at start.
Load ==
  /\ loadResult = "NONE"
  /\ \E n \in 0..MaxRules :
       \E pick \in [ 1..n -> (DOMAIN RulePool) \X (1..MaxPriority) ] :
         policy' = [ i \in 1..n |->
                      [ RulePool[pick[i][1]] EXCEPT !.priority = pick[i][2] ] ]
  /\ loadResult' = load(policy')
  /\ UNCHANGED << gatewayVars, clientVars >>

\* The stack hands wafRules to the web ACL.
LoadSource ==
  /\ loadResult = "NONE"
  /\ policy' = wafRules
  /\ loadResult' = load(policy')
  /\ UNCHANGED << gatewayVars, clientVars >>

NextLoad ==
  \/ Load
  \/ LoadSource

Init ==
  /\ GatewayInit
  /\ ClientIdle
  /\ LoadIdle

Next ==
  \/ Receive
  \/ Evaluate
  \/ Invoke
  \/ Block
  \/ Challenge
  \/ ResolveChallenge
  \/ Retry
  \/ Finish

Spec == Init /\ [][Next]_vars

SpecClient == Init /\ [][NextClient]_vars

SpecLoad == Init /\ [][NextLoad]_vars


\* ------------------------------------------------------------- properties
\* The web ACL has decided the request now at the stage.
Evaluated == stage \notin { "IDLE", "RECEIVED" }

\* The web ACL has just classified the request and nothing was answered yet.
Decided == stage \in { "ALLOWED", "BLOCKED", "CHALLENGED" }

Dev == << "d", "e", "v" >>

\* GET /dev/hello
DevHello == << "/", "d", "e", "v", "/", "h", "e", "l", "l", "o" >>

Terminal == { "ALLOW", "BLOCK", "CHALLENGE" }

\* The examples: the dispositions of OPTIONS /dev/hello and GET /dev/hello
\* with token:absent, and of GET /dev/hello with no signals.
OptionsDevHelloTokenAbsent ==
  Classify([ method |-> OPTIONS, uriPath |-> DevHello, signals |-> { TokenAbsent } ])

GetDevHelloTokenAbsent ==
  Classify([ method |-> GET, uriPath |-> DevHello, signals |-> { TokenAbsent } ])

GetDevHelloNoSignals ==
  Classify([ method |-> GET, uriPath |-> DevHello, signals |-> { } ])

\* C1: a request whose method is OPTIONS is never given BLOCK or CHALLENGE,
\* whatever its path and whatever signals it carries.
C1_OptionsNeverBlockedOrChallenged ==
  /\ (Decided /\ req.method = OPTIONS) => disp.outcome \notin { "BLOCK", "CHALLENGE" }
  /\ stage = "IDLE" => OptionsDevHelloTokenAbsent.outcome = "ALLOW"

C1_Witness ==
  /\ Decided
  /\ req.method = OPTIONS
  /\ Contains(req.uriPath, Dev)
  /\ req.signals = Signals
  /\ disp.outcome = "ALLOW"

\* No rule of a lower priority number than the block rule ends the evaluation
\* of r.
ReachesBlockRule(r) ==
  \A i \in DOMAIN wafRules :
    wafRules[i].priority < BlockRule.priority => RuleAction(wafRules[i], r) = "CONTINUE"

\* C2: a request that carries token:absent or token:rejected, whose method is
\* not OPTIONS and whose evaluation reaches the block rule, is given BLOCK with
\* matchedRule Block-Requests-With-Missing-Or-Rejected-Token-Label.
C2_MissingOrRejectedTokenBlocked ==
  /\ ( /\ Decided
       /\ req.signals \cap TokenLabels # { }
       /\ req.method # OPTIONS
       /\ ReachesBlockRule(req) )
     => ( disp.outcome = "BLOCK" /\ disp.matchedRule = BlockRuleName )
  /\ stage = "IDLE" =>
       /\ GetDevHelloTokenAbsent.outcome = "BLOCK"
       /\ GetDevHelloTokenAbsent.matchedRule = BlockRuleName

C2_Witness ==
  /\ Decided
  /\ req.signals = { TokenRejected }
  /\ req.method = GET
  /\ Contains(req.uriPath, Dev)
  /\ disp.outcome = "BLOCK"
  /\ disp.matchedRule = BlockRuleName

\* C3 as stated: a request whose path does not contain "dev" is never matched
\* by the bot-control rule nor given CHALLENGE.
C3_Original_PathWithoutDevNeverChallenged ==
  (Decided /\ ~ Contains(req.uriPath, Dev))
    => ( disp.matchedRule # BotControlRuleName /\ disp.outcome # "CHALLENGE" )

\* What the later rules and the default action give r.
AfterBotControl(r) ==
  IF RuleAction(BlockRule, r) # "CONTINUE"
    THEN Disposition(RuleAction(BlockRule, r), BlockRuleName, r)
    ELSE Disposition(defaultAction, NoRule, r)

\* C3 amended: a request whose lowercased path does not contain "dev" is never
\* matched by the bot-control rule nor given CHALLENGE; the block rule or the
\* default action decides it.
C3_LowercasedPathWithoutDevNeverChallenged ==
  (Decided /\ ~ Contains(Transform("LOWERCASE", req.uriPath), Dev))
    => /\ disp.matchedRule # BotControlRuleName
       /\ disp.outcome # "CHALLENGE"
       /\ disp = AfterBotControl(req)

C3_Witness ==
  /\ Decided
  /\ ~ Contains(Transform("LOWERCASE", req.uriPath), Dev)
  /\ Len(req.uriPath) = 3
  /\ req.method = GET
  /\ req.signals = OverrideSignals
  /\ disp.outcome = "ALLOW"

\* The rules that end the evaluation of r.
Deciding(r) == { i \in DOMAIN wafRules : RuleAction(wafRules[i], r) # "CONTINUE" }

\* C4: the rule of the lowest priority number among those that match with a
\* terminal action alone decides the outcome; a request no rule decides gets
\* the default action, ALLOW (GET /dev/hello with no signals).
C4_FirstMatchingRuleByPriorityWins ==
  /\ Decided =>
       IF Deciding(req) = { }
         THEN disp.outcome = "ALLOW" /\ disp.matchedRule = NoRule
         ELSE \E i \in Deciding(req) :
                /\ \A j \in Deciding(req) : wafRules[i].priority <= wafRules[j].priority
                /\ disp.outcome = RuleAction(wafRules[i], req)
                /\ disp.matchedRule = wafRules[i].name
  /\ stage = "IDLE" =>
       /\ GetDevHelloNoSignals.outcome = "ALLOW"
       /\ GetDevHelloNoSignals.matchedRule = NoRule

C4_Witness ==
  /\ Decided
  /\ Cardinality(Deciding(req)) = 2
  /\ disp.outcome = "CHALLENGE"
  /\ disp.matchedRule = BotControlRuleName

C6_HandlerSeesOnlyAllowed ==
  /\ (stage = "HANDLED" \/ response = handler(req))
       => ( disp.outcome = "ALLOW" /\ Classify(req).outcome = "ALLOW" )
  /\ stage \in { "BLOCKED", "REJECTED", "CHALLENGED", "CHALLENGE_SENT" }
       => response # handler(req)

C6_Witness ==
  /\ stage = "HANDLED"
  /\ challenged
  /\ response = handler(req)
  /\ Contains(req.uriPath, Dev)

InScope(r) == Eval(scopeDownStatement, r)

\* C8: a request inside the bot-control scope that carries at least one of
\* the three overridden signals is given CHALLENGE by the bot-control rule,
\* each signal on its own sufficing; outside the scope the overrides are not
\* consulted.
C8_OverrideSignalsChallengeInScope ==
  Decided =>
    /\ (InScope(req) /\ req.signals \cap OverrideSignals # { })
         => ( disp.outcome = "CHALLENGE" /\ disp.matchedRule = BotControlRuleName )
    /\ (Contains(req.uriPath, Dev) /\ req.method # OPTIONS
          /\ req.signals \cap OverrideSignals # { })
         => disp.outcome = "CHALLENGE"
    /\ ~ InScope(req) => ( disp.outcome # "CHALLENGE" /\ disp.matchedRule # BotControlRuleName )

C8_Witness ==
  /\ Decided
  /\ InScope(req)
  /\ req.signals = { "CategoryHttpLibrary" }
  /\ disp.outcome = "CHALLENGE"

Upper(c) == IF c \in DOMAIN ToUpper THEN ToUpper[c] ELSE c

SwapCase(c) == IF Lower(c) # c THEN Lower(c) ELSE Upper(c)

\* The path p with the letters at the positions in at changed in case.
CaseVariant(p, at) == [ i \in DOMAIN p |-> IF i \in at THEN SwapCase(p[i]) ELSE p[i] ]

\* C9: requests that differ only in the letter case of the path are both in
\* the bot-control scope or both outside it, while only a method that is byte
\* for byte OPTIONS is excluded by the two rules: "options" is not.
C9_PathCaseInsensitiveMethodCaseSensitive ==
  Decided =>
    /\ \A at \in SUBSET DOMAIN req.uriPath :
         InScope([ req EXCEPT !.uriPath = CaseVariant(req.uriPath, at) ]) = InScope(req)
    /\ req.method = OPTIONS
         => ( ~ InScope(req) /\ RuleAction(BlockRule, req) = "CONTINUE" )
    /\ (req.method # OPTIONS /\ Contains(Transform("LOWERCASE", req.uriPath), Dev)
          /\ req.signals \cap OverrideSignals # { })
         => disp.outcome = "CHALLENGE"
    /\ (req.method # OPTIONS /\ req.signals \cap TokenLabels # { })
         => disp.outcome \in { "BLOCK", "CHALLENGE" }

C9_Witness ==
  /\ Decided
  /\ req.method = options
  /\ req.uriPath = << "d", "E", "v" >>
  /\ req.signals = { "SignalNonBrowserUserAgent", TokenAbsent }
  /\ disp.outcome = "CHALLENGE"


\* Two rules of the policy have equal priority and both match some request.
Ambiguous(rules) ==
  \E r \in ProbeRequests :
    \E i \in DOMAIN rules : \E j \in DOMAIN rules \ { i } :
      /\ rules[i].priority = rules[j].priority
      /\ Eval(rules[i].statement, r)
      /\ Eval(rules[j].statement, r)

RECURSIVE CountType(_, _)
CountType(entries, type) ==
  IF entries = << >> THEN 0
  ELSE (IF Head(entries).type = type THEN 1 ELSE 0) + CountType(Tail(entries), type)

\* C10: once every request has completed with a response or with an Error,
\* the results list holds exactly one entry per click, of the clicked button's
\* type.
C10_OneEntryPerClick ==
  ( /\ inflight = { }
    /\ \A i \in DOMAIN clicks : clicks[i].status \in { "response", "error" } )
  => /\ Len(results) = Len(clicks)
     /\ \A type \in { "Challenge", "Non challenge" } :
          CountType(results, type) = CountType(clicks, type)

=============================================================================
